---- MODULE Spec2Model ----
(***************************************************************************)
(* Openotex: the LaTeX compilation path.                                   *)
(*                                                                         *)
(*   main process   ipcMain.handle('compile-latex') with its helpers       *)
(*                  spawnCollect, execFileAsync, detectLatexDistribution,  *)
(*                  installLatexPackage, installLatexFonts                 *)
(*   preload        api.compileLatex, api.installLatexPackage,             *)
(*                  api.onCompilationStatus                                *)
(*   renderer       Preview.tsx: compileLatex, the compile trigger effect  *)
(*                  and the compilation-status listener                    *)
(*                                                                         *)
(* Three specifications share the module:                                  *)
(*   Spec         one compile-latex request, every await point a state     *)
(*   SpecInstall  the three package-install entry points on one name       *)
(*   SpecPreview  the Preview component with several requests in flight    *)
(***************************************************************************)
EXTENDS Integers, Sequences, FiniteSets, TLC

(***************************************************************************)
(* Bounds of the model                                                     *)
(***************************************************************************)
\* safe package names the compiler output may mention: "a", "aa", ...
MaxNames == 5
\* longest package name handed to the install entry points
MaxNameLen == 2
\* compile calls the Preview component makes
MaxRequests == 2
\* compilation-status events in flight from main to renderer
MaxQueue == 1
\* child processes counted one by one; beyond it the count reads "SpawnCap or more"
SpawnCap == 3
\* the 'data' chunks one stream of a child delivers in SpecSpawn
MaxChunks == 2

(***************************************************************************)
(* Program constants                                                       *)
(***************************************************************************)
maxAttempts == 5
CompilerTimeoutMs == 120000
InstallTimeoutMs == 120000
RefreshTimeoutMs == 60000
\* execFileAsync called without a timeout option: execFile's default, none
NoTimeout == 0

allowedEngines == {"pdflatex", "xelatex", "lualatex"}
\* the engine argument a request arrives with: one of the enum, or any other value
RequestEngines == {"pdflatex", "bogus"}
Distributions == {"miktex", "texlive", "unknown"}

(***************************************************************************)
(* Package names are sequences of characters                               *)
(***************************************************************************)
Lower == {"a","b","c","d","e","f","g","h","i","j","k","l","m",
          "n","o","p","q","r","s","t","u","v","w","x","y","z"}
Upper == {"A","B","C","D","E","F","G","H","I","J","K","L","M",
          "N","O","P","Q","R","S","T","U","V","W","X","Y","Z"}
Digits == {"0","1","2","3","4","5","6","7","8","9"}

\* the allowlist without its anchors, /[A-Za-z0-9._-]+/: one allowed character
\* anywhere is enough
isSafePackageNameUnanchored(name) ==
    \E i \in 1..Len(name) : name[i] \in Lower \cup Upper \cup Digits \cup {".", "_", "-"}

\* /^[A-Za-z0-9._-]+$/.test(name)
isSafePackageName(name) ==
    /\ Len(name) >= 1
    /\ \A i \in 1..Len(name) : name[i] \in Lower \cup Upper \cup Digits \cup {".", "_", "-"}

\* the names a compiler log can carry in this model: MaxNames safe ones and
\* one that fails the allowlist
SafeNames == {[i \in 1..k |-> "a"] : k \in 1..MaxNames}
UnsafeName == <<"a", ";">>
PkgNames == SafeNames \cup {UnsafeName}

NoName == <<>>
GenericFont == <<"*">>


(***************************************************************************)
(* State                                                                   *)
(***************************************************************************)
VARIABLES
    \* ---- ipcMain.handle('compile-latex'): the frame of one request ----
    pc,                    \* the await the handler is suspended at
    engine,                \* the engine argument, then the normalised one
    distribution,          \* const distribution = await detectLatexDistribution()
    attemptCount,          \* let attemptCount = 0
    currentAttempt,        \* 0: undefined; n: the result of loop attempt n
    installedPackages,     \* new Set<string>()
    attemptedFontFallback, \* let attemptedFontFallback = false
    caught,                \* the error caught by the loop's catch clause
    installName,           \* installLatexPackage: packageName
    installCaller,         \* which branch awaits installLatexPackage
    installDist,           \* installLatexPackage: const distribution
    proc,                  \* the external process the handler awaits
    combinedStdout,        \* let combinedStdout = stdout, then the appended parts
    outcome,               \* the object the handler resolved with
    \* ---- the file system ----
    pdfExists,             \* <dir>/<filename>.pdf was on disk when fs.access looked
    pdfReadable,           \* fs.readFile(pdfPath) could read it
    \* ---- what the request did (history) ----
    spawned,               \* child processes started since the request began or, after
                           \* a failed attempt, since it was caught; at most SpawnCap
    loopRuns,              \* runLatexEngine() calls made by the while loop
    lastLoopExit,          \* how the last of them ended
    installCalls,          \* installLatexPackage(name) calls, per name
    cleanups,              \* the attempt numbers at which .aux/.out/.bbl were unlinked
    events,                \* event.sender.send('compilation-status', ..) calls
    \* ---- the renderer's webContents (event.sender) ----
    observer,              \* "open", or "destroyed" once its window is gone
    \* ---- the install entry points (SpecInstall) ----
    ipc,
    \* ---- Preview.tsx and the requests it has in flight (SpecPreview) ----
    pv,
    \* ---- one spawnCollect promise and its child (SpecSpawn) ----
    sc

handlerVars == <<pc, engine, distribution, attemptCount, currentAttempt,
                 installedPackages, attemptedFontFallback, caught, installName,
                 installCaller, installDist, proc, combinedStdout, outcome,
                 pdfExists, pdfReadable, spawned, loopRuns, lastLoopExit, installCalls,
                 cleanups, events, observer>>
vars == <<handlerVars, ipc, pv, sc>>

NoProc == [cmd |-> "none", arg |-> NoName, timeoutMs |-> NoTimeout, killed |-> FALSE]
NoErr == [kind |-> "none", cit |-> FALSE, font |-> NoName, missing |-> NoName]
NoOutcome == [success |-> FALSE, pdfData |-> "absent", error |-> "pending", log |-> <<>>,
              details |-> [text |-> "none", name |-> NoName, of |-> <<>>]]

\* the handler frame as one value, so that the code between two awaits is a
\* function from frame to frame
Cur == [pc |-> pc, engine |-> engine, distribution |-> distribution,
        attemptCount |-> attemptCount, currentAttempt |-> currentAttempt,
        installedPackages |-> installedPackages,
        attemptedFontFallback |-> attemptedFontFallback, caught |-> caught,
        installName |-> installName, installCaller |-> installCaller,
        installDist |-> installDist, proc |-> proc,
        combinedStdout |-> combinedStdout, outcome |-> outcome,
        pdfExists |-> pdfExists, pdfReadable |-> pdfReadable, spawned |-> spawned,
        loopRuns |-> loopRuns,
        lastLoopExit |-> lastLoopExit, installCalls |-> installCalls,
        cleanups |-> cleanups, events |-> events, observer |-> observer]

Apply(s) ==
    /\ pc' = s.pc
    /\ engine' = s.engine
    /\ distribution' = s.distribution
    /\ attemptCount' = s.attemptCount
    /\ currentAttempt' = s.currentAttempt
    /\ installedPackages' = s.installedPackages
    /\ attemptedFontFallback' = s.attemptedFontFallback
    /\ caught' = s.caught
    /\ installName' = s.installName
    /\ installCaller' = s.installCaller
    /\ installDist' = s.installDist
    /\ proc' = s.proc
    /\ combinedStdout' = s.combinedStdout
    /\ outcome' = s.outcome
    /\ pdfExists' = s.pdfExists
    /\ pdfReadable' = s.pdfReadable
    /\ spawned' = s.spawned
    /\ loopRuns' = s.loopRuns
    /\ lastLoopExit' = s.lastLoopExit
    /\ installCalls' = s.installCalls
    /\ cleanups' = s.cleanups
    /\ events' = s.events
    /\ observer' = s.observer

(***************************************************************************)
(* Helpers of the main process                                             *)
(***************************************************************************)
\* one more child process, counted up to SpawnCap
CountUp(n) == IF n < SpawnCap THEN n + 1 ELSE n

\* execFileAsync(file, args, options): the handler suspends until the child's
\* callback; options.timeout is the only bound on the child
execFileAsync(s, cmd, arg, timeoutMs, at) ==
    [s EXCEPT !.proc = [cmd |-> cmd, arg |-> arg, timeoutMs |-> timeoutMs, killed |-> FALSE],
              !.spawned = CountUp(@), !.pc = at]

\* spawnCollect(command, args, options, timeoutMs): spawn and arm the timer
spawnCollect(s, cmd, timeoutMs, at) ==
    [s EXCEPT !.proc = [cmd |-> cmd, arg |-> NoName, timeoutMs |-> timeoutMs, killed |-> FALSE],
              !.spawned = CountUp(@), !.pc = at]

\* a detection that queries two binaries
detectLatexDistributionTwoQueries(s, at) ==
    execFileAsync(execFileAsync(s, "latex --version", NoName, NoTimeout, at),
                  "pdflatex --version", NoName, NoTimeout, at)

\* detectLatexDistribution(): execFileAsync('pdflatex', ['--version'])
detectLatexDistribution(s, at) ==
    execFileAsync(s, "pdflatex --version", NoName, NoTimeout, at)

\* how the version query can end: its stdout, lower-cased, names MiKTeX, names
\* TeX Live, names neither, or execFileAsync rejects
VersionQueryResults == {"miktex", "tex live", "other", "rejected"}

\* the value detectLatexDistribution returns for it
DistributionOf(q) ==
    IF q = "miktex" THEN "miktex"
    ELSE IF q = "tex live" THEN "texlive"
    ELSE "unknown"

\* const runLatexEngine = async () => spawnCollect(engine, args, { cwd: dir }, 120000)
runLatexEngine(s, at) == spawnCollect(s, s.engine, CompilerTimeoutMs, at)

\* what event.sender can be while the handler runs: the renderer's window is
\* open (with or without a listener on the channel), or it has been destroyed
ObserverStates == {"open", "destroyed"}

\* event.sender.send('compilation-status', { stage, message }): the call has no
\* isDestroyed() test and no try around it, and Electron's send on a destroyed
\* webContents throws TypeError('Object has been destroyed')
Send(s, stage) ==
    IF s.observer = "destroyed"
    THEN [s EXCEPT !.pc = "threw"]
    ELSE [s EXCEPT !.events = Append(@, stage)]

\* a send threw and the frame has not been caught yet
Threw(s) == s.pc = "threw"

\* return { success, error, log, details } from the handler
Return(s, o) == [s EXCEPT !.pc = "done", !.outcome = o, !.proc = NoProc]

\* a failure object lacking its error text
FailureWithoutError(error, log, details) ==
    [success |-> FALSE, pdfData |-> "absent", error |-> "none", log |-> log,
     details |-> details]

\* return { success: false, error, log, details }
Failure(error, log, details) ==
    [success |-> FALSE, pdfData |-> "absent", error |-> error, log |-> log,
     details |-> details]

\* a message: its fixed text, the package name interpolated into it (if any)
\* and the pass whose output it is (if any)
Message(text) == [text |-> text, name |-> NoName, of |-> <<>>]
MessageNaming(text, name) == [text |-> text, name |-> name, of |-> <<>>]
OutputOf(text, pass) == [text |-> text, name |-> NoName, of |-> pass]

\* the handler's outer catch on the TypeError of a send: error.message, and
\* error.stdout || '' and error.stderr || '' of an error that has neither
SendThrew(s) == Return(s, Failure("Object has been destroyed", <<>>, Message("")))

\* the stdout of loop attempt n, as a piece of a log
AttemptLog(n) == << <<"attempt", n>> >>

\* const errorOutput = (error.stdout || '') + (error.stderr || '') of attempt n
ErrorOutputLog(n) == << <<"errorOutput", n>> >>

\* what installLatexPackage(packageName) returns
InstallInvalidName == [success |-> FALSE, message |-> Message("Invalid package name.")]
InstallUnknownDistribution ==
    [success |-> FALSE, message |-> Message("Unknown LaTeX distribution.")]
InstallFailed(name) ==
    [success |-> FALSE,
     message |-> MessageNaming("Failed to install package ${packageName}: ${error.message}",
                               name)]
InstallSucceeded(name) ==
    [success |-> TRUE,
     message |-> MessageNaming("Package ${packageName} installed successfully", name)]

\* what installLatexFonts(distribution) returns
FontsUnknownDistribution ==
    [success |-> FALSE,
     message |-> Message("Unknown LaTeX distribution. Skipping automatic font installation.")]
FontsFailed ==
    [success |-> FALSE, message |-> Message("Font installation failed: ${error.message}")]
FontsSucceeded ==
    [success |-> TRUE, message |-> Message("Required fonts installed successfully")]

(***************************************************************************)
(* ipcMain.handle('compile-latex'): the code between two awaits            *)
(***************************************************************************)
\* after the while loop: if (!currentAttempt) return {...}; then the handler
\* awaits fs.readFile(auxPath)
AfterLoop(s) ==
    IF s.currentAttempt = 0
    THEN Return(s, Failure("Compilation failed - no successful attempt", <<>>,
                           Message("Failed to compile after all attempts")))
    ELSE [s EXCEPT !.pc = "readAux", !.proc = NoProc, !.caught = NoErr,
                   !.combinedStdout = AttemptLog(s.currentAttempt),
                   !.installName = NoName, !.installCaller = "none",
                   !.installDist = "unknown"]

\* the loop condition off by one: attemptCount <= maxAttempts
LoopConditionOffByOne(s) == s.attemptCount <= maxAttempts

\* while (attemptCount < maxAttempts) { attemptCount++; ... await runLatexEngine()
LoopCondition(s) == s.attemptCount < maxAttempts

WhileLoop(s) ==
    IF Threw(s)
    THEN SendThrew(s)
    ELSE IF LoopCondition(s)
    THEN runLatexEngine([s EXCEPT !.attemptCount = @ + 1, !.loopRuns = @ + 1,
                                  !.caught = NoErr, !.installName = NoName,
                                  !.installCaller = "none",
                                  !.installDist = "unknown"], "run")
    ELSE AfterLoop(s)

\* the handler's outer catch on the error of a pass: error.message,
\* error.stdout, error.stderr
OuterCatch(s, log) ==
    Return(s, Failure("error.message", log, OutputOf("error.stderr", log[1])))

\* the end of the catch clause without its rethrow: the budget outcome always
ExhaustedWithoutRethrow(s) ==
    Return(s, Failure("Compilation failed after multiple attempts",
                      ErrorOutputLog(s.attemptCount), Message("error.message")))

\* if (attemptCount >= maxAttempts) return {...}; throw error
Exhausted(s) ==
    IF s.attemptCount >= maxAttempts
    THEN Return(s, Failure("Compilation failed after multiple attempts",
                           ErrorOutputLog(s.attemptCount), Message("error.message")))
    ELSE OuterCatch(s, AttemptLog(s.attemptCount))

\* the missing-package branch continuing without its 'retry' event
PackageInstallReturnedWithoutRetryEvent(s, installResult) ==
    IF installResult.success
    THEN WhileLoop([s EXCEPT !.installedPackages = @ \cup {s.installName}])
    ELSE Return(s, Failure("Failed to install package", ErrorOutputLog(s.attemptCount),
                           installResult.message))

\* installLatexPackage(missingPackage) returned to the missing-package branch
PackageInstallReturned(s, installResult) ==
    IF installResult.success
    THEN WhileLoop(Send([s EXCEPT !.installedPackages = @ \cup {s.installName}], "retry"))
    ELSE Return(s, Failure("Failed to install package", ErrorOutputLog(s.attemptCount),
                           installResult.message))

\* installLatexFonts(distribution) returned
FontsInstallReturned(s, installResult) ==
    IF installResult.success
    THEN WhileLoop(Send(s, "retry"))
    ELSE Return(s, Failure("Font installation failed", ErrorOutputLog(s.attemptCount),
                           installResult.message))

\* installLatexFonts(distribution): the first of its three processes
installLatexFonts(s) ==
    IF s.distribution = "miktex"
    THEN execFileAsync(s, "mpm", <<"e", "c">>, InstallTimeoutMs, "fontsEc")
    ELSE IF s.distribution = "texlive"
    THEN execFileAsync(s, "tlmgr", <<"e", "c">>, InstallTimeoutMs, "fontsEc")
    ELSE FontsInstallReturned(s, FontsUnknownDistribution)

RECURSIVE installLatexPackage(_, _, _)

\* the missing-package branch without its installedPackages test
MissingPackageBranchUnguarded(s) ==
    IF s.caught.missing # NoName
    THEN installLatexPackage(Send(s, "package-installation"), s.caught.missing, "package")
    ELSE Exhausted(s)

\* const missingPackage = detectMissingPackage(errorOutput); if (missingPackage && ...
MissingPackageBranch(s) ==
    IF s.caught.missing # NoName /\ s.caught.missing \notin s.installedPackages
    THEN installLatexPackage(Send(s, "package-installation"), s.caught.missing, "package")
    ELSE Exhausted(s)

\* the fallback without its attemptedFontFallback test
FontFallbackUnguarded(s) ==
    LET s1 == Send([s EXCEPT !.attemptedFontFallback = TRUE], "font-installation")
    IN  IF Threw(s1)
        THEN SendThrew(s1)
        ELSE IF s1.distribution = "unknown"
        THEN Return(s1, Failure("Font installation failed",
                                ErrorOutputLog(s.attemptCount),
                                Message("Unknown LaTeX distribution. Install fonts manually.")))
        ELSE installLatexFonts(s1)

\* if (!attemptedFontFallback) { ... }
FontFallback(s) ==
    IF ~s.attemptedFontFallback
    THEN LET s1 == Send([s EXCEPT !.attemptedFontFallback = TRUE], "font-installation")
         IN  IF Threw(s1)
             THEN SendThrew(s1)
             ELSE IF s1.distribution = "unknown"
             THEN Return(s1, Failure("Font installation failed",
                                     ErrorOutputLog(s.attemptCount),
                                     Message("Unknown LaTeX distribution. Install fonts manually.")))
             ELSE installLatexFonts(s1)
    ELSE MissingPackageBranch(s)

\* installLatexPackage(fontError.packageName) returned to the font branch
FontPackageInstallReturned(s, installResult) ==
    IF installResult.success
    THEN WhileLoop(Send([s EXCEPT !.installedPackages = @ \cup {s.installName}], "retry"))
    ELSE FontFallback(s)

InstallReturned(s, installResult) ==
    IF s.installCaller = "font"
    THEN FontPackageInstallReturned(s, installResult)
    ELSE PackageInstallReturned(s, installResult)

\* installLatexPackage(packageName): the allowlist test, then the await of
\* detectLatexDistribution()
installLatexPackage(s, name, caller) ==
    LET s1 == [s EXCEPT !.installName = name, !.installCaller = caller,
                        !.installCalls[name] = @ + 1]
    IN  IF Threw(s)
        THEN SendThrew(s)
        ELSE IF ~isSafePackageName(name)
        THEN InstallReturned(s1, InstallInvalidName)
        ELSE detectLatexDistribution(s1, "pkgDetect")

\* const fontError = detectFontError(errorOutput); if (fontError.hasError) { ... }
FontBranch(s) ==
    IF s.caught.font # NoName
    THEN IF s.caught.font # GenericFont /\ s.caught.font \notin s.installedPackages
         THEN installLatexPackage(Send(s, "font-installation"), s.caught.font, "font")
         ELSE FontFallback(s)
    ELSE MissingPackageBranch(s)

\* the citation branch without its attempt test: if (detectCitationError(errorOutput))
CleanupEligibleOnAnyAttempt(s) == s.caught.cit

\* if (detectCitationError(errorOutput) && attemptCount === 1)
CleanupEligible(s) == s.caught.cit /\ s.attemptCount = 1

\* the three fs.unlink(..).catch(() => {}) and the two events around them:
\* 'cleaning' is sent before the inner try, 'retry' inside it, and its
\* catch (cleanError) falls through to the font test
CitationBranch(s) ==
    IF CleanupEligible(s)
    THEN LET s1 == Send(s, "cleaning")
             s2 == Send([s1 EXCEPT !.cleanups = Append(@, s.attemptCount)], "retry")
         IN  IF Threw(s1)
             THEN SendThrew(s1)
             ELSE IF Threw(s2)
             THEN FontBranch([s2 EXCEPT !.pc = s.pc])
             ELSE WhileLoop(s2)
    ELSE FontBranch(s)

\* catch (error) { const errorOutput = ...; ... }
CatchClause(s, e) == CitationBranch([s EXCEPT !.caught = e, !.spawned = 0])

(***************************************************************************)
(* What the environment may answer                                         *)
(***************************************************************************)
\* how a child of spawnCollect can end: 'exit' with code 0, with a non-zero
\* code, with code null (ended by a signal), or 'error' (it never started)
ExitCodes == {"0", "nonzero", "null"}

\* the safe names installLatexPackage has been called with so far
SeenNames(calls) == {n \in SafeNames : calls[n] > 0}

\* the k shortest safe names not yet seen. Names never seen are interchangeable,
\* so an output that mentions new names mentions the shortest unseen ones.
FreshNames(calls, k) ==
    {n \in SafeNames \ SeenNames(calls) :
        Cardinality({m \in SafeNames \ SeenNames(calls) : Len(m) < Len(n)}) < k}

\* the error output of a failed run, as the detectors see it:
\* detectCitationError, detectFontError (none, generic, or a package name) and
\* detectMissingPackage (none or a package name)
ErrorOutputs(calls) ==
    {e \in [kind : {"exit"}, cit : BOOLEAN,
            font : {NoName, GenericFont} \cup PkgNames,
            missing : {NoName} \cup PkgNames] :
        /\ e.font \in {NoName, GenericFont, UnsafeName}
                        \cup SeenNames(calls) \cup FreshNames(calls, 1)
        /\ e.missing \in {NoName, UnsafeName} \cup SeenNames(calls)
                           \cup FreshNames(calls, IF e.font \in FreshNames(calls, 1)
                                                  THEN 2 ELSE 1)}

\* a child that never started printed nothing
SpawnError == [kind |-> "spawn", cit |-> FALSE, font |-> NoName, missing |-> NoName]

\* fs.readFile(auxPath): it throws, or the content has or lacks \bibdata / \citation
AuxStates == {"unreadable", "nobib", "bib"}

SpawnPcs == {"run", "rerun1", "rerun2"}
ExecPcs == {"detect", "pkgDetect", "pkgInstall", "pkgRefresh", "pkgRefresh2",
            "fontsEc", "fontsCmSuper", "fontsRefresh", "fontsRefresh2", "bibtex"}

\* needsRecompilation matching none of its patterns
needsRecompilationNever(output) == FALSE

\* needsRecompilation(output): one of the rerun patterns matches
needsRecompilation(output) == output.rerun

\* spawnCollect's 'exit' listener: if (code && code !== 0) reject else resolve
Resolves(code) == code # "nonzero"

\* currentAttempt = await runLatexEngine() resolved inside the loop:
\* if (needsRecompilation(output) && attemptCount < maxAttempts) continue; break
AttemptResolved(s, code, output) ==
    LET s1 == [s EXCEPT !.currentAttempt = s.attemptCount, !.lastLoopExit = code]
    IN  IF needsRecompilation(output) /\ s.attemptCount < maxAttempts
        THEN WhileLoop(s1)
        ELSE AfterLoop(s1)

(***************************************************************************)
(* Actions of one compile-latex request                                    *)
(***************************************************************************)
\* the handler is entered and awaits detectLatexDistribution()
CompileLatex ==
    /\ pc = "start"
    /\ Apply(detectLatexDistribution(Cur, "detect"))
    /\ UNCHANGED <<ipc, pv, sc>>

\* the handler spawning whatever engine it was given
EngineOrDefaultUnchecked(e) == e

\* if (!allowedEngines.includes(engine)) { engine = 'pdflatex'; }
EngineOrDefault(e) == IF e \in allowedEngines THEN e ELSE "pdflatex"

\* the version query ended; the engine is checked against allowedEngines and
\* the while loop is entered
DetectDone ==
    /\ pc = "detect"
    /\ \E q \in VersionQueryResults :
         Apply(WhileLoop([Cur EXCEPT
             !.distribution = DistributionOf(q),
             !.engine = EngineOrDefault(engine)]))
    /\ UNCHANGED <<ipc, pv, sc>>

\* spawnCollect's timer: if (!settled) child.kill()
SpawnTimeout ==
    /\ pc \in SpawnPcs
    /\ proc.timeoutMs > 0
    /\ ~proc.killed
    /\ proc' = [proc EXCEPT !.killed = TRUE]
    /\ UNCHANGED <<pc, engine, distribution, attemptCount, currentAttempt,
                   installedPackages, attemptedFontFallback, caught, installName,
                   installCaller, installDist, combinedStdout, outcome, pdfExists,
                   pdfReadable, spawned, loopRuns, lastLoopExit, installCalls, cleanups,
                   events, observer, ipc, pv, sc>>

\* execFile's own timeout (options.timeout > 0): the child is killed and the
\* callback gets an error
ExecTimeout ==
    /\ pc \in ExecPcs
    /\ proc.timeoutMs > 0
    /\ ~proc.killed
    /\ proc' = [proc EXCEPT !.killed = TRUE]
    /\ UNCHANGED <<pc, engine, distribution, attemptCount, currentAttempt,
                   installedPackages, attemptedFontFallback, caught, installName,
                   installCaller, installDist, combinedStdout, outcome, pdfExists,
                   pdfReadable, spawned, loopRuns, lastLoopExit, installCalls, cleanups,
                   events, observer, ipc, pv, sc>>

\* a loop attempt resolved: currentAttempt = await runLatexEngine(); rerun or break
RunResolved ==
    /\ pc = "run"
    /\ \E code \in ExitCodes, rerun \in BOOLEAN :
         /\ Resolves(code)
         /\ Apply(AttemptResolved(Cur, code, [rerun |-> rerun]))
    /\ UNCHANGED <<ipc, pv, sc>>

\* a loop attempt rejected with a non-zero exit code: the catch clause
RunRejected ==
    /\ pc = "run"
    /\ \E code \in ExitCodes, e \in ErrorOutputs(installCalls) :
         /\ ~Resolves(code)
         /\ Apply(CatchClause([Cur EXCEPT !.lastLoopExit = code], e))
    /\ UNCHANGED <<ipc, pv, sc>>

\* a loop attempt rejected by the child's 'error' event
RunSpawnError ==
    /\ pc = "run"
    /\ Apply(CatchClause([Cur EXCEPT !.lastLoopExit = "error"], SpawnError))
    /\ UNCHANGED <<ipc, pv, sc>>

\* installLatexPackage: its own detectLatexDistribution() ended
PkgDetectDone ==
    /\ pc = "pkgDetect"
    /\ \E q \in VersionQueryResults :
         LET d == DistributionOf(q)
             s == [Cur EXCEPT !.installDist = d]
         IN  Apply(IF d = "miktex"
                   THEN execFileAsync(s, "mpm", installName, InstallTimeoutMs, "pkgInstall")
                   ELSE IF d = "texlive"
                   THEN execFileAsync(s, "tlmgr", installName, InstallTimeoutMs, "pkgInstall")
                   ELSE InstallReturned(s, InstallUnknownDistribution))
    /\ UNCHANGED <<ipc, pv, sc>>

\* installLatexPackage: mpm --install=<name> / tlmgr install <name> ended
PkgInstallDone ==
    /\ pc = "pkgInstall"
    /\ \E ok \in BOOLEAN :
         /\ ok => ~proc.killed
         /\ Apply(IF ~ok
                  THEN InstallReturned(Cur, InstallFailed(installName))
                  ELSE IF installDist = "miktex"
                  THEN execFileAsync(Cur, "initexmf", NoName, RefreshTimeoutMs, "pkgRefresh")
                  ELSE execFileAsync(Cur, "mktexlsr", NoName, RefreshTimeoutMs, "pkgRefresh"))
    /\ UNCHANGED <<ipc, pv, sc>>

\* installLatexPackage: initexmf --update-fndb / mktexlsr ended
PkgRefreshDone ==
    /\ pc = "pkgRefresh"
    /\ \E ok \in BOOLEAN :
         /\ ok => ~proc.killed
         /\ Apply(IF ok
                  THEN InstallReturned(Cur, InstallSucceeded(installName))
                  ELSE IF installDist = "miktex"
                  THEN InstallReturned(Cur, InstallFailed(installName))
                  ELSE execFileAsync(Cur, "texhash", NoName, RefreshTimeoutMs, "pkgRefresh2"))
    /\ UNCHANGED <<ipc, pv, sc>>

\* installLatexPackage: texhash, run when mktexlsr failed, ended
PkgRefresh2Done ==
    /\ pc = "pkgRefresh2"
    /\ \E ok \in BOOLEAN :
         /\ ok => ~proc.killed
         /\ Apply(InstallReturned(Cur, IF ok THEN InstallSucceeded(installName)
                                        ELSE InstallFailed(installName)))
    /\ UNCHANGED <<ipc, pv, sc>>

\* installLatexFonts: the install of ec ended
FontsEcDone ==
    /\ pc = "fontsEc"
    /\ \E ok \in BOOLEAN :
         /\ ok => ~proc.killed
         /\ Apply(IF ok
                  THEN execFileAsync(Cur, proc.cmd, <<"c", "m", "-", "s", "u", "p", "e", "r">>,
                                     InstallTimeoutMs, "fontsCmSuper")
                  ELSE FontsInstallReturned(Cur, FontsFailed))
    /\ UNCHANGED <<ipc, pv, sc>>

\* installLatexFonts: the install of cm-super ended
FontsCmSuperDone ==
    /\ pc = "fontsCmSuper"
    /\ \E ok \in BOOLEAN :
         /\ ok => ~proc.killed
         /\ Apply(IF ~ok
                  THEN FontsInstallReturned(Cur, FontsFailed)
                  ELSE IF distribution = "miktex"
                  THEN execFileAsync(Cur, "initexmf", NoName, RefreshTimeoutMs, "fontsRefresh")
                  ELSE execFileAsync(Cur, "mktexlsr", NoName, RefreshTimeoutMs, "fontsRefresh"))
    /\ UNCHANGED <<ipc, pv, sc>>

\* installLatexFonts: initexmf --update-fndb / mktexlsr ended
FontsRefreshDone ==
    /\ pc = "fontsRefresh"
    /\ \E ok \in BOOLEAN :
         /\ ok => ~proc.killed
         /\ Apply(IF ok
                  THEN FontsInstallReturned(Cur, FontsSucceeded)
                  ELSE IF distribution = "miktex"
                  THEN FontsInstallReturned(Cur, FontsFailed)
                  ELSE execFileAsync(Cur, "texhash", NoName, RefreshTimeoutMs, "fontsRefresh2"))
    /\ UNCHANGED <<ipc, pv, sc>>

\* installLatexFonts: texhash, run when mktexlsr failed, ended
FontsRefresh2Done ==
    /\ pc = "fontsRefresh2"
    /\ \E ok \in BOOLEAN :
         /\ ok => ~proc.killed
         /\ Apply(FontsInstallReturned(Cur, IF ok THEN FontsSucceeded ELSE FontsFailed))
    /\ UNCHANGED <<ipc, pv, sc>>

(***************************************************************************)
(* Post-processing                                                         *)
(***************************************************************************)
\* after BibTeX and the re-runs: the handler awaits fs.access(pdfPath)
ToPdfCheck(s) == [s EXCEPT !.pc = "pdfCheck", !.proc = NoProc]

\* const auxContent = await fs.readFile(auxPath, 'utf-8'); bibtex when it has a
\* bibliography marker
ReadAux ==
    /\ pc = "readAux"
    /\ \E a \in AuxStates :
         Apply(IF a = "bib"
               THEN execFileAsync(Cur, "bibtex", NoName, NoTimeout, "bibtex")
               ELSE ToPdfCheck(Cur))
    /\ UNCHANGED <<ipc, pv, sc>>

\* a bibtex failure that reaches the handler's outer catch
BibtexReturnedFatal(s, ok) ==
    IF ok
    THEN runLatexEngine([s EXCEPT !.combinedStdout = Append(@, <<"[BibTeX]", 0>>)],
                        "rerun1")
    ELSE OuterCatch(s, << <<"[BibTeX]", 0>> >>)

\* await execFileAsync('bibtex', ..) ended: ranBibtex = true, its output is
\* appended and the second pass starts; or catch (bibError) only logs, and the
\* handler goes on to fs.access(pdfPath) (proc still names the resolver that
\* ended)
BibtexReturned(s, ok) ==
    IF ok
    THEN runLatexEngine([s EXCEPT !.combinedStdout = Append(@, <<"[BibTeX]", 0>>)],
                        "rerun1")
    ELSE [s EXCEPT !.pc = "pdfCheck"]

BibtexDone ==
    /\ pc = "bibtex"
    /\ \E ok \in BOOLEAN : Apply(BibtexReturned(Cur, ok))
    /\ UNCHANGED <<ipc, pv, sc>>

\* the second pass not followed by a third one
Rerun1DoneWithoutThirdPass ==
    /\ pc = "rerun1"
    /\ \E code \in ExitCodes \cup {"error"} :
         LET s == Cur
         IN  Apply(IF code # "error" /\ Resolves(code)
                   THEN ToPdfCheck([s EXCEPT !.combinedStdout =
                                        Append(@, <<"[Re-run 1]", 1>>)])
                   ELSE OuterCatch(s, << <<"[Re-run 1]", 1>> >>))
    /\ UNCHANGED <<ipc, pv, sc>>

\* const secondPass = await runLatexEngine()
Rerun1Done ==
    /\ pc = "rerun1"
    /\ \E code \in ExitCodes \cup {"error"} :
         LET s == Cur
         IN  Apply(IF code # "error" /\ Resolves(code)
                   THEN runLatexEngine([s EXCEPT !.combinedStdout =
                                            Append(@, <<"[Re-run 1]", 1>>)], "rerun2")
                   ELSE OuterCatch(s, << <<"[Re-run 1]", 1>> >>))
    /\ UNCHANGED <<ipc, pv, sc>>

\* const thirdPass = await runLatexEngine()
Rerun2Done ==
    /\ pc = "rerun2"
    /\ \E code \in ExitCodes \cup {"error"} :
         LET s == Cur
         IN  Apply(IF code # "error" /\ Resolves(code)
                   THEN ToPdfCheck([s EXCEPT !.combinedStdout =
                                        Append(@, <<"[Re-run 2]", 2>>)])
                   ELSE OuterCatch(s, << <<"[Re-run 2]", 2>> >>))
    /\ UNCHANGED <<ipc, pv, sc>>

\* the PDF check without fs.access: whatever the read yields is returned
PdfAvailableWithoutAccess(exists, readable) == readable

\* await fs.access(pdfPath); await fs.readFile(pdfPath): both succeed only on
\* a file that is there
PdfAvailable(exists, readable) == exists /\ readable

PdfCheck ==
    /\ pc = "pdfCheck"
    /\ \E exists \in BOOLEAN, readable \in BOOLEAN :
         LET s == [Cur EXCEPT !.pdfExists = exists, !.pdfReadable = readable]
         IN  Apply(IF PdfAvailable(exists, readable)
                   THEN Return(s, [success |-> TRUE, pdfData |-> "pdfBase64",
                                   error |-> "none", log |-> combinedStdout,
                                   details |-> Message("none")])
                   ELSE Return(s, Failure("Compilation failed - PDF not generated",
                                          combinedStdout, Message("combinedStderr"))))
    /\ UNCHANGED <<ipc, pv, sc>>

\* the locals of a handler that has not run yet
HandlerFresh ==
    /\ distribution = "unknown"
    /\ attemptCount = 0
    /\ currentAttempt = 0
    /\ installedPackages = {}
    /\ attemptedFontFallback = FALSE
    /\ caught = NoErr
    /\ installName = NoName
    /\ installCaller = "none"
    /\ installDist = "unknown"
    /\ proc = NoProc
    /\ combinedStdout = <<>>
    /\ outcome = NoOutcome
    /\ pdfExists = FALSE
    /\ pdfReadable = FALSE
    /\ spawned = 0
    /\ loopRuns = 0
    /\ lastLoopExit = "none"
    /\ installCalls = [n \in PkgNames |-> 0]
    /\ cleanups = <<>>
    /\ events = <<>>

\* a request arrives at ipcMain.handle('compile-latex') from an open window
HandlerInit ==
    /\ pc = "start"
    /\ engine \in RequestEngines
    /\ observer = "open"
    /\ HandlerFresh

Init ==
    /\ HandlerInit
    /\ ipc = 0
    /\ pv = 0
    /\ sc = 0

Next ==
    \/ CompileLatex
    \/ DetectDone
    \/ SpawnTimeout
    \/ ExecTimeout
    \/ RunResolved
    \/ RunRejected
    \/ RunSpawnError
    \/ PkgDetectDone
    \/ PkgInstallDone
    \/ PkgRefreshDone
    \/ PkgRefresh2Done
    \/ FontsEcDone
    \/ FontsCmSuperDone
    \/ FontsRefreshDone
    \/ FontsRefresh2Done
    \/ ReadAux
    \/ BibtexDone
    \/ Rerun1Done
    \/ Rerun2Done
    \/ PdfCheck

Spec == Init /\ [][Next]_vars

(***************************************************************************)
(* Claims about one compile request                                        *)
(***************************************************************************)
PostPcs == {"readAux", "bibtex", "rerun1", "rerun2", "pdfCheck"}
Done == pc = "done"
Count(seq, x) == Cardinality({i \in 1..Len(seq) : seq[i] = x})

\* the handler's position within one attempt: a later await has a lower rank
AwaitRank ==
    CASE pc = "run" -> 13
      [] pc = "pkgDetect" -> IF installCaller = "font" THEN 12 ELSE 4
      [] pc = "pkgInstall" -> IF installCaller = "font" THEN 11 ELSE 3
      [] pc = "pkgRefresh" -> IF installCaller = "font" THEN 10 ELSE 2
      [] pc = "pkgRefresh2" -> IF installCaller = "font" THEN 9 ELSE 1
      [] pc = "fontsEc" -> 8
      [] pc = "fontsCmSuper" -> 7
      [] pc = "fontsRefresh" -> 6
      [] pc = "fontsRefresh2" -> 5
      [] pc = "readAux" -> 9
      [] pc = "bibtex" -> 8
      [] pc = "rerun1" -> 7
      [] pc = "rerun2" -> 6
      [] pc = "pdfCheck" -> 5
      [] OTHER -> 0

\* a measure of what is left of the request: every step lowers it
Rank ==
    CASE pc = "start" -> 1000
      [] pc = "detect" -> 999
      [] pc = "done" -> 0
      [] pc \in PostPcs -> 2 * AwaitRank + (IF proc.killed THEN 0 ELSE 1)
      [] OTHER -> 100 + 30 * (maxAttempts - attemptCount)
                      + 2 * AwaitRank + (IF proc.killed THEN 0 ELSE 1)

\* C1: the attempt loop makes at most maxAttempts = 5 compiler invocations, the
\* attempt counter goes up by exactly one with each of them and never passes 5,
\* and the request terminates with an outcome: every step lowers a measure
\* bounded below, and the handler is never stuck before it has returned.
C1_BoundedAttempts ==
    /\ [](/\ loopRuns = attemptCount
          /\ attemptCount <= maxAttempts
          /\ (Done \/ ENABLED Next)
          /\ (Done => outcome # NoOutcome))
    /\ [][/\ Rank' < Rank
          /\ loopRuns' \in {loopRuns, loopRuns + 1}
          /\ attemptCount' - attemptCount = loopRuns' - loopRuns]_vars

\* five attempts were made, each reported a missing package not seen before,
\* every install succeeded, and the loop ended with an outcome
C1_Witness ==
    /\ Done
    /\ loopRuns = maxAttempts
    /\ Cardinality(installedPackages) = maxAttempts
    /\ Count(events, "package-installation") = maxAttempts
    /\ Count(events, "retry") = maxAttempts
    /\ outcome.error = "Compilation failed - no successful attempt"

\* C2: a request whose last loop attempt exited non-zero always ends in
\* Failure (post-processing and Success need a zero exit of the last attempt).
C2_NonZeroLastAttemptFails ==
    (Done /\ lastLoopExit = "nonzero") => ~outcome.success

\* C3: success:true only if the PDF was on disk after the final pass.
C3_SuccessRequiresPdf ==
    /\ outcome.success => pdfExists
    /\ outcome.success => Done

\* every pass exited zero, the PDF is absent, and the outcome is a failure
C3_Witness ==
    /\ Done
    /\ lastLoopExit = "0"
    /\ loopRuns = 1
    /\ ~pdfExists
    /\ ~outcome.success
    /\ outcome.error = "Compilation failed - PDF not generated"

\* C4: within one request no remediation name has its install operation
\* invoked more than once, whatever the installer returns. Stated for the names
\* that pass the allowlist, whose install reaches the package manager.
C4_InstallAtMostOncePerName ==
    \A n \in SafeNames : installCalls[n] <= 1

\* C5: the auxiliary files are unlinked at most once per request and only on
\* attempt 1, and every 'cleaning' event belongs to such a cleanup.
C5_CleanupOnlyOnFirstAttempt ==
    /\ Len(cleanups) <= 1
    /\ \A i \in 1..Len(cleanups) : cleanups[i] = 1
    /\ Count(events, "cleaning") = Len(cleanups)

\* attempt 1 was cleaned up, and a later attempt reports citation corruption too
C5_Witness ==
    /\ cleanups = <<1>>
    /\ attemptCount >= 2
    /\ caught.cit
    /\ pc = "pkgDetect"

\* C10: every external process awaited by the request is bounded by a timeout.
C10_EveryProcessHasTimeout ==
    proc.cmd # "none" => proc.timeoutMs > 0

(***************************************************************************)
(* The package-install entry points, on one package name                   *)
(*   "preload"  api.installLatexPackage(packageName) in the preload script *)
(*   "handler"  ipcMain.handle('install-latex-package')                    *)
(*   "helper"   installLatexPackage(packageName) of the main process       *)
(***************************************************************************)
\* characters package names are built from here: allowed ones and ';', ' ', '/'
InstallAlphabet == {"a", "Z", "7", ".", "_", "-", ";", " ", "/"}

\* every string over the alphabet of length 0..MaxNameLen
InstallNames == UNION {[1..k -> InstallAlphabet] : k \in 0..MaxNameLen}

InstallEntries == {"preload", "handler", "helper"}

\* a child process started on behalf of the install
InstallSpawn(i, cmd, at) ==
    [i EXCEPT !.pc = at, !.cmd = cmd, !.spawned = @ + 1]

InstallDone(i, success) ==
    [i EXCEPT !.pc = "done", !.cmd = "none", !.success = success]

\* api.installLatexPackage: if (!isSafePackageName(packageName)) resolve a
\* failure, else ipcRenderer.invoke('install-latex-package', packageName)
PreloadInstallLatexPackage ==
    /\ ipc.pc = "call"
    /\ ipc.entry = "preload"
    /\ ipc' = IF ~isSafePackageName(ipc.name)
              THEN InstallDone(ipc, FALSE)
              ELSE [ipc EXCEPT !.entry = "handler"]
    /\ UNCHANGED <<handlerVars, pv, sc>>

\* ipcMain.handle('install-latex-package'): the allowlist test, then
\* detectLatexDistribution()
IpcInstallLatexPackage ==
    /\ ipc.pc = "call"
    /\ ipc.entry = "handler"
    /\ ipc' = IF ~isSafePackageName(ipc.name)
              THEN InstallDone(ipc, FALSE)
              ELSE InstallSpawn(ipc, "pdflatex --version", "detect")
    /\ UNCHANGED <<handlerVars, pv, sc>>

\* installLatexPackage: the allowlist test, then detectLatexDistribution()
HelperInstallLatexPackage ==
    /\ ipc.pc = "call"
    /\ ipc.entry = "helper"
    /\ ipc' = IF ~isSafePackageName(ipc.name)
              THEN InstallDone(ipc, FALSE)
              ELSE InstallSpawn(ipc, "pdflatex --version", "detect")
    /\ UNCHANGED <<handlerVars, pv, sc>>

\* the version query ended: the package manager of the distribution is run
InstallDetectDone ==
    /\ ipc.pc = "detect"
    /\ \E q \in VersionQueryResults :
         LET d == DistributionOf(q)
             i == [ipc EXCEPT !.distribution = d]
         IN  ipc' = IF d = "miktex"
                    THEN InstallSpawn(i, IF ipc.entry = "helper" \/ ipc.platform = "win32"
                                         THEN "mpm" ELSE "miktex", "install")
                    ELSE IF d = "texlive"
                    THEN InstallSpawn(i, "tlmgr", "install")
                    ELSE InstallDone(i, FALSE)
    /\ UNCHANGED <<handlerVars, pv, sc>>

\* the package manager ended: the IPC handler returns; the helper refreshes
\* the file database
InstallPackageManagerDone ==
    /\ ipc.pc = "install"
    /\ \E ok \in BOOLEAN :
         ipc' = IF ~ok
                THEN InstallDone(ipc, FALSE)
                ELSE IF ipc.entry = "handler"
                THEN InstallDone(ipc, TRUE)
                ELSE InstallSpawn(ipc, IF ipc.distribution = "miktex"
                                       THEN "initexmf" ELSE "mktexlsr", "refresh")
    /\ UNCHANGED <<handlerVars, pv, sc>>

\* the helper's refresh ended; on TeX Live a failed mktexlsr is followed by texhash
InstallRefreshDone ==
    /\ ipc.pc = "refresh"
    /\ \E ok \in BOOLEAN :
         ipc' = IF ok
                THEN InstallDone(ipc, TRUE)
                ELSE IF ipc.cmd = "mktexlsr"
                THEN InstallSpawn(ipc, "texhash", "refresh")
                ELSE InstallDone(ipc, FALSE)
    /\ UNCHANGED <<handlerVars, pv, sc>>

IdleHandler ==
    /\ pc = "idle"
    /\ engine = "pdflatex"
    /\ distribution = "unknown"
    /\ attemptCount = 0
    /\ currentAttempt = 0
    /\ installedPackages = {}
    /\ attemptedFontFallback = FALSE
    /\ caught = NoErr
    /\ installName = NoName
    /\ installCaller = "none"
    /\ installDist = "unknown"
    /\ proc = NoProc
    /\ combinedStdout = <<>>
    /\ outcome = NoOutcome
    /\ pdfExists = FALSE
    /\ pdfReadable = FALSE
    /\ spawned = 0
    /\ loopRuns = 0
    /\ lastLoopExit = "none"
    /\ installCalls = [n \in PkgNames |-> 0]
    /\ cleanups = <<>>
    /\ events = <<>>
    /\ observer = "open"

InitInstall ==
    /\ IdleHandler
    /\ pv = 0
    /\ sc = 0
    /\ \E name \in InstallNames, entry \in InstallEntries, platform \in {"win32", "linux"} :
         ipc = [entry |-> entry, via |-> entry, name |-> name, platform |-> platform,
                pc |-> "call", cmd |-> "none", distribution |-> "unknown",
                spawned |-> 0, success |-> FALSE]

NextInstall ==
    \/ PreloadInstallLatexPackage
    \/ IpcInstallLatexPackage
    \/ HelperInstallLatexPackage
    \/ InstallDetectDone
    \/ InstallPackageManagerDone
    \/ InstallRefreshDone

SpecInstall == InitInstall /\ [][NextInstall]_vars

\* C6: a package name that fails the allowlist ^[A-Za-z0-9._-]+$ makes each of
\* the three entry points return a failure without starting any process.
C6_UnsafeNameStartsNoProcess ==
    (\/ ipc.name = <<>>
     \/ \E i \in 1..Len(ipc.name) :
            ipc.name[i] \notin Lower \cup Upper \cup Digits \cup {".", "_", "-"}) =>
        /\ ipc.spawned = 0
        /\ ipc.pc \in {"call", "done"}
        /\ ~ipc.success

\* the IPC handler, called directly with a name holding ';', returned a failure
C6_Witness ==
    /\ ipc.via = "handler"
    /\ ipc.pc = "done"
    /\ \E i \in 1..Len(ipc.name) : ipc.name[i] = ";"
    /\ ~ipc.success
    /\ ipc.spawned = 0

(***************************************************************************)
(* Preview.tsx with several compile requests in flight.                    *)
(*                                                                         *)
(* A request is named by the identifier compileLatex gave it.  For each    *)
(* request the main process runs the compile-latex handler above; here the *)
(* handler is followed only as far as the renderer and the working         *)
(* directory can see it: it awaits the distribution query, runs compiler   *)
(* passes, sends compilation-status events around a remediation, and       *)
(* returns.  The loop's own bound is the concern of Spec.                  *)
(***************************************************************************)
Ids == 1..MaxRequests
Paths == {"a.tex", "b.tex"}
ProgressStages == {"cleaning", "font-installation", "package-installation", "retry"}

\* the texts the status line shows: '', the three of compileLatex, or the
\* message of a compilation-status event, named by its stage
NoText == ""
FreeRequest == [st |-> "free", path |-> "none", mpc |-> "none", result |-> "none"]

\* const requestId = latestCompileRequestRef.current + 1
NextRequestId(ref) == ref + 1

\* compileLatex without its identifier test: every result is applied
IsStaleNever(ref, requestId) == FALSE

\* if (latestCompileRequestRef.current !== requestId) return
IsStale(ref, requestId) == ref # requestId

\* the listener registered with api.onCompilationStatus, on one event
OnCompilationStatus(v, status) ==
    [v EXCEPT !.compilationStatus = status.stage,
              !.notification =
                  IF status.stage \in {"font-installation", "package-installation", "retry"}
                  THEN status.stage ELSE @]

\* compileLatex whose finally clears the indicator for every request
ApplyResultAlwaysClearing(v, r, result) ==
    IF IsStale(v.latestCompileRequestRef, r)
    THEN [v EXCEPT !.req[r].st = "dropped", !.isCompiling = FALSE]
    ELSE IF result = "success"
    THEN [v EXCEPT !.req[r].st = "applied", !.pdfData = r, !.compilationLog = r,
                   !.error = 0, !.compilationStatus = "Compilation successful",
                   !.isCompiling = FALSE]
    ELSE IF result = "failure"
    THEN [v EXCEPT !.req[r].st = "applied", !.error = r, !.compilationLog = r,
                   !.pdfData = 0, !.compilationStatus = NoText,
                   !.isCompiling = FALSE]
    ELSE [v EXCEPT !.req[r].st = "applied", !.error = r, !.pdfData = 0,
                   !.compilationStatus = NoText, !.isCompiling = FALSE]

\* compileLatex after its await, on the result of request r
ApplyResult(v, r, result) ==
    IF IsStale(v.latestCompileRequestRef, r)
    THEN [v EXCEPT !.req[r].st = "dropped"]
    ELSE IF result = "success"
    THEN [v EXCEPT !.req[r].st = "applied", !.pdfData = r, !.compilationLog = r,
                   !.error = 0, !.compilationStatus = "Compilation successful",
                   !.isCompiling = FALSE]
    ELSE IF result = "failure"
    THEN [v EXCEPT !.req[r].st = "applied", !.error = r, !.compilationLog = r,
                   !.pdfData = 0, !.compilationStatus = NoText,
                   !.isCompiling = FALSE]
    ELSE [v EXCEPT !.req[r].st = "applied", !.error = r, !.pdfData = 0,
                   !.compilationStatus = NoText, !.isCompiling = FALSE]

\* compileLatex up to its await: a new identifier, the compiling state, and
\* api.compileLatex(currentFilePath, latexEngine), which enters the handler
PreviewCompileLatex ==
    /\ pv.isLatexFile
    /\ pv.latestCompileRequestRef < MaxRequests
    /\ LET requestId == NextRequestId(pv.latestCompileRequestRef)
       IN  pv' = [pv EXCEPT !.latestCompileRequestRef = requestId,
                            !.isCompiling = TRUE, !.error = 0, !.compilationLog = 0,
                            !.compilationStatus = "Compiling...",
                            !.req[requestId] = [st |-> "awaiting",
                                                path |-> pv.currentFilePath,
                                                mpc |-> "detect", result |-> "none"]]
    /\ UNCHANGED <<handlerVars, ipc, sc>>

\* the props change to another LaTeX file: the next compile call uses its path
PreviewOpenLatexFile ==
    /\ \E path \in Paths :
         /\ path # pv.currentFilePath \/ ~pv.isLatexFile
         /\ pv' = [pv EXCEPT !.currentFilePath = path, !.isLatexFile = TRUE]
    /\ UNCHANGED <<handlerVars, ipc, sc>>

\* the props change to a file that is not LaTeX: the effect's else branch
PreviewOpenOtherFile ==
    /\ pv.isLatexFile
    /\ pv.latestCompileRequestRef < MaxRequests
    /\ LET id == pv.latestCompileRequestRef + 1
       IN  pv' = [pv EXCEPT !.isLatexFile = FALSE,
                            !.latestCompileRequestRef = id,
                            !.req[id] = [FreeRequest EXCEPT !.st = "skipped"],
                            !.isCompiling = FALSE, !.compilationStatus = NoText,
                            !.error = 0, !.compilationLog = 0, !.pdfData = 0]
    /\ UNCHANGED <<handlerVars, ipc, sc>>

\* main: the handler's detectLatexDistribution() ended and the first pass starts
MainDetectDone(r) ==
    /\ pv.req[r].mpc = "detect"
    /\ pv' = [pv EXCEPT !.req[r].mpc = "run"]
    /\ UNCHANGED <<handlerVars, ipc, sc>>

\* main: a pass failed and a remediation starts with its event
MainRemediate(r) ==
    /\ pv.req[r].mpc = "run"
    /\ Len(pv.statusQueue) < MaxQueue
    /\ \E stage \in {"cleaning", "font-installation", "package-installation"} :
         pv' = [pv EXCEPT !.req[r].mpc = "remedy",
                          !.statusQueue = Append(@, [stage |-> stage, from |-> r])]
    /\ UNCHANGED <<handlerVars, ipc, sc>>

\* main: the remediation succeeded: the 'retry' event and the next pass
MainRetry(r) ==
    /\ pv.req[r].mpc = "remedy"
    /\ Len(pv.statusQueue) < MaxQueue
    /\ pv' = [pv EXCEPT !.req[r].mpc = "run",
                        !.statusQueue = Append(@, [stage |-> "retry", from |-> r])]
    /\ UNCHANGED <<handlerVars, ipc, sc>>

\* main: the handler returns its outcome, or the invoke is rejected; its frame,
\* texFilePath included, is gone
MainReturn(r) ==
    /\ pv.req[r].mpc \in {"run", "remedy"}
    /\ \E result \in {"success", "failure", "throw"} :
         /\ result = "success" => pv.req[r].mpc = "run"
         /\ pv' = [pv EXCEPT !.req[r].mpc = "returned", !.req[r].path = "none",
                             !.req[r].result = result]
    /\ UNCHANGED <<handlerVars, ipc, sc>>

\* renderer: a compilation-status event arrives at the listener
DeliverStatus ==
    /\ pv.statusQueue # <<>>
    /\ pv' = OnCompilationStatus([pv EXCEPT !.statusQueue = Tail(@)], Head(pv.statusQueue))
    /\ UNCHANGED <<handlerVars, ipc, sc>>

\* renderer: the promise of api.compileLatex settles and compileLatex resumes
DeliverResult(r) ==
    /\ pv.req[r].st = "awaiting"
    /\ pv.req[r].mpc = "returned"
    /\ pv' = ApplyResult(pv, r, pv.req[r].result)
    /\ UNCHANGED <<handlerVars, ipc, sc>>

InitPreview ==
    /\ IdleHandler
    /\ ipc = 0
    /\ sc = 0
    /\ pv = [latestCompileRequestRef |-> 0, isLatexFile |-> TRUE,
             currentFilePath |-> "a.tex", pdfData |-> 0, error |-> 0,
             compilationLog |-> 0, compilationStatus |-> NoText,
             isCompiling |-> FALSE, notification |-> NoText,
             req |-> [r \in Ids |-> FreeRequest], statusQueue |-> <<>>]

NextPreview ==
    \/ PreviewCompileLatex
    \/ PreviewOpenLatexFile
    \/ PreviewOpenOtherFile
    \/ DeliverStatus
    \/ \E r \in Ids : MainDetectDone(r)
    \/ \E r \in Ids : MainRemediate(r)
    \/ \E r \in Ids : MainRetry(r)
    \/ \E r \in Ids : MainReturn(r)
    \/ \E r \in Ids : DeliverResult(r)

SpecPreview == InitPreview /\ [][NextPreview]_vars

(***************************************************************************)
(* Claims about concurrent requests                                        *)
(***************************************************************************)
\* what the Preview component displays of a compilation
Displayed(v) == <<v.pdfData, v.error, v.compilationLog, v.compilationStatus>>

\* request r's await of api.compileLatex settles in this step
Settles(r) == pv.req[r].st = "awaiting" /\ pv'.req[r].st \in {"applied", "dropped"}

\* compileLatex is called in this step and names its request r
Issues(r) == pv.req[r].st = "free" /\ pv'.req[r].st = "awaiting"

\* what the display shows once the result of request r has been applied
ShowsResultOf(v, r) ==
    IF v.req[r].result = "success"
    THEN v.pdfData = r /\ v.compilationLog = r /\ v.error = 0
    ELSE v.pdfData = 0 /\ v.error = r

\* C7: two compile requests for the same document path never have compiler
\* passes in flight at the same time.
C7_NoOverlappingPassesOnOnePath ==
    \A r1 \in Ids, r2 \in Ids :
        (/\ r1 # r2
         /\ pv.req[r1].mpc = "run"
         /\ pv.req[r2].mpc = "run") => pv.req[r1].path # pv.req[r2].path

\* C8: last request wins. The request identifier strictly increases with every
\* compile call; the result of a request that is no longer the latest changes
\* nothing of the displayed PDF data, error, log and status; the result of the
\* latest request is applied.
C8_LastRequestWins ==
    [][/\ pv'.latestCompileRequestRef >= pv.latestCompileRequestRef
       /\ \A r \in Ids :
            /\ Issues(r) => /\ r > pv.latestCompileRequestRef
                            /\ pv'.latestCompileRequestRef = r
            /\ Settles(r) =>
                 IF r # pv.latestCompileRequestRef
                 THEN /\ Displayed(pv') = Displayed(pv)
                      /\ pv'.req[r].st = "dropped"
                 ELSE /\ ShowsResultOf(pv', r)
                      /\ pv'.req[r].st = "applied"]_vars

\* request 1 returned a success after request 2 was issued; its result was
\* dropped while the display still waits for request 2
C8_Witness ==
    /\ pv.latestCompileRequestRef = 2
    /\ pv.req[1].st = "dropped"
    /\ pv.req[1].result = "success"
    /\ pv.req[2].st = "awaiting"
    /\ pv.pdfData # 1

\* C9: a compilation-status event sent by a request that is no longer the
\* latest changes neither the status text nor the notification.
C9_StaleProgressDropped ==
    [][(/\ pv.statusQueue # <<>>
        /\ pv'.statusQueue = Tail(pv.statusQueue)
        /\ Head(pv.statusQueue).from # pv.latestCompileRequestRef)
       => /\ pv'.compilationStatus = pv.compilationStatus
          /\ pv'.notification = pv.notification]_vars

(***************************************************************************)
(* Claims about the outcome of one compile request                         *)
(***************************************************************************)
\* C11: a compiler pass of the loop that was killed by spawnCollect's timer and
\* ended by the signal (exit code null) is handled as a failed run: it is never
\* taken as the attempt's successful result.
C11_TimedOutPassIsFailedRun ==
    [][(pc = "run" /\ proc.killed /\ lastLoopExit' = "null")
          => currentAttempt' # attemptCount]_vars

\* C12: the handler returns exactly one outcome on every path: an outcome
\* exists exactly when the handler has returned, nothing happens after it, and
\* the outcome carries pdfData when success is true and an error text when
\* success is false.
C12_ExactlyOneOutcome ==
    /\ [](/\ Done <=> outcome # NoOutcome
          /\ Done => /\ outcome.success \in BOOLEAN
                     /\ outcome.success => outcome.pdfData = "pdfBase64"
                     /\ ~outcome.success => /\ outcome.error \notin {"none", "pending"}
                                            /\ outcome.pdfData = "absent")
    /\ [][~Done /\ outcome = NoOutcome]_vars

\* the first compiler pass could not be spawned; the outer catch returned a failure
C12_Witness ==
    /\ Done
    /\ loopRuns = 1
    /\ lastLoopExit = "error"
    /\ ~outcome.success
    /\ outcome.error = "error.message"

\* a loop attempt is rejected in this step and its error output is classified
Catches == pc = "run" /\ caught' # NoErr

\* C13: a package that was installed successfully is never installed again in
\* the request, and an attempt that fails reporting only that package (no font
\* error, no citation cleanup) ends the request in Failure on that attempt
\* without an install, an event or a further compiler attempt.
C13_InstalledPackageNotReinstalled ==
    [][/\ \A n \in PkgNames :
            n \in installedPackages => installCalls'[n] = installCalls[n]
       /\ (/\ Catches
           /\ caught'.missing \in installedPackages
           /\ caught'.font = NoName
           /\ ~(caught'.cit /\ attemptCount = 1))
          => /\ pc' = "done"
             /\ ~outcome'.success
             /\ installCalls' = installCalls
             /\ events' = events
             /\ loopRuns' = loopRuns]_vars

\* attempt 1 reported a missing package, its install succeeded, attempt 2
\* reported it again and the request ended in Failure with one install call
C13_Witness ==
    /\ Done
    /\ attemptCount = 2
    /\ caught.missing \in installedPackages
    /\ caught.font = NoName
    /\ installCalls[caught.missing] = 1
    /\ ~outcome.success
    /\ events = <<"package-installation", "retry">>

\* the combined log after the resolver and the two passes that follow it
BibliographyLog(n) ==
    AttemptLog(n) \o << <<"[BibTeX]", 0>>, <<"[Re-run 1]", 1>>, <<"[Re-run 2]", 2>> >>

ArtifactRead == pdfExists /\ pdfReadable

\* C15: a clean compile (the first run exits zero without a rerun marker, no
\* bibliography marker in the .aux file, the artifact is there) makes exactly
\* one process invocation in the whole request, returns Success with the
\* artifact's bytes and sends no progress event.
C15_CleanCompileOneInvocation ==
    (/\ Done
     /\ loopRuns = 1
     /\ lastLoopExit = "0"
     /\ outcome.log = AttemptLog(1)
     /\ ArtifactRead)
    => /\ spawned = 1
       /\ outcome.success
       /\ outcome.pdfData = "pdfBase64"
       /\ events = <<>>

\* the awaits of installLatexPackage
PkgPcs == {"pkgDetect", "pkgInstall", "pkgRefresh", "pkgRefresh2"}

\* C16: when attempt 1 fails on a missing package and the install succeeds,
\* exactly one 'package-installation' event and then one 'retry' event have
\* been sent when attempt 2 starts; if attempt 2 exits zero and the artifact is
\* there, the outcome is Success and no further event was sent.
C16_MissingPackageAutoResolved ==
    /\ [][(/\ pc \in PkgPcs
           /\ installCaller = "package"
           /\ attemptCount = 1
           /\ installedPackages' # installedPackages)
          => /\ events' = <<"package-installation", "retry">>
             /\ installedPackages' = {installName}
             /\ pc' = "run"
             /\ proc'.cmd = engine
             /\ attemptCount' = 2]_vars
    /\ []((/\ Done
           /\ attemptCount = 2
           /\ lastLoopExit = "0"
           /\ Len(events) >= 1
           /\ Head(events) = "package-installation"
           /\ ArtifactRead)
          => /\ outcome.success
             /\ events = <<"package-installation", "retry">>)

\* attempt 1 missed a package, the install succeeded, attempt 2 exited zero
C16_Witness ==
    /\ Done
    /\ outcome.success
    /\ attemptCount = 2
    /\ Cardinality(installedPackages) = 1
    /\ events = <<"package-installation", "retry">>

C18_InstallFailureNamesDependency ==
    (Done /\ outcome.error = "Failed to install package")
        => outcome.details.name = installName

\* C19: an attempt n < 5 that exits non-zero with an output of no remediable
\* family (no citation corruption on attempt 1, no font error, no missing
\* package) ends the request at once: no install, no event, no process, no
\* further attempt, and the Failure carries the attempt's stdout as log and its
\* stderr as details.
C19_UnclassifiedFailureIsTerminal ==
    [][(/\ Catches
        /\ lastLoopExit' = "nonzero"
        /\ attemptCount < maxAttempts
        /\ caught'.font = NoName
        /\ caught'.missing = NoName
        /\ ~(caught'.cit /\ attemptCount = 1))
       => /\ pc' = "done"
          /\ ~outcome'.success
          /\ outcome'.log = AttemptLog(attemptCount)
          /\ outcome'.details = OutputOf("error.stderr", <<"attempt", attemptCount>>)
          /\ events' = events
          /\ installCalls' = installCalls
          /\ spawned' = 0
          /\ loopRuns' = loopRuns]_vars

\* the first attempt exited non-zero with an output no detector matches
C19_Witness ==
    /\ Done
    /\ attemptCount = 1
    /\ lastLoopExit = "nonzero"
    /\ caught = [kind |-> "exit", cit |-> FALSE, font |-> NoName, missing |-> NoName]
    /\ outcome.log = AttemptLog(1)
    /\ events = <<>>

\* C20: when the install of a named font package fails, the request ends in
\* Failure at once: the step in which installLatexPackage returns the failure
\* to the font branch is the handler's return.
C20_FontInstallFailureIsTerminal ==
    [][(/\ pc \in PkgPcs
        /\ installCaller = "font"
        /\ pc' \notin PkgPcs
        /\ installedPackages' = installedPackages)
       => /\ pc' = "done"
          /\ ~outcome'.success]_vars

\* the awaits of installLatexFonts
FontsPcs == {"fontsEc", "fontsCmSuper", "fontsRefresh", "fontsRefresh2"}

\* C21: the fallback font bundle (ec, cm-super) is started at most once per
\* request: installLatexFonts is entered only while attemptedFontFallback is
\* false, entering it sets the flag, and the flag never goes back.
C21_FontFallbackAtMostOnce ==
    /\ [](pc \in FontsPcs => attemptedFontFallback)
    /\ [][/\ attemptedFontFallback => attemptedFontFallback'
          /\ (pc' \in FontsPcs /\ pc \notin FontsPcs) => ~attemptedFontFallback]_vars

\* the bundle was installed on an earlier attempt; a later attempt reported a
\* font error again and the request ended without starting the bundle again
C21_Witness ==
    /\ Done
    /\ attemptedFontFallback
    /\ attemptCount >= 2
    /\ caught.font = GenericFont
    /\ events = <<"font-installation", "retry">>
    /\ \A n \in DOMAIN installCalls : installCalls[n] = 0

\* C22: a request whose fifth attempt exited non-zero ends, whatever the
\* detectors found in its output, in a failure that carries that attempt's
\* errorOutput as log and error.message as details.
C22_FifthAttemptFailureCarriesItsOutput ==
    (Done /\ loopRuns = maxAttempts /\ lastLoopExit = "nonzero")
        => /\ ~outcome.success
           /\ outcome.log = ErrorOutputLog(maxAttempts)
           /\ outcome.details = Message("error.message")

\* C23: while an attempt is running, its ending with exit code 0 and a rerun
\* marker in its output starts attempt n+1 when n < 5, with no installer call
\* and no progress event, and on attempt 5 goes on to post-processing with no
\* further attempt.
C23_RerunMarkerStartsNextAttempt ==
    pc = "run" =>
        LET n == AttemptResolved(Cur, "0", [rerun |-> TRUE])
        IN  IF attemptCount < maxAttempts
            THEN /\ n.pc = "run"
                 /\ n.attemptCount = attemptCount + 1
                 /\ n.loopRuns = loopRuns + 1
                 /\ n.currentAttempt = attemptCount
                 /\ n.proc.cmd = engine
                 /\ n.events = events
                 /\ n.installCalls = installCalls
            ELSE /\ n.pc = "readAux"
                 /\ n.attemptCount = maxAttempts
                 /\ n.loopRuns = loopRuns
                 /\ n.currentAttempt = maxAttempts
                 /\ n.events = events
                 /\ n.installCalls = installCalls

\* four attempts in a row asked for a rerun and the fifth resolved: the
\* handler is in post-processing after five attempts and sent nothing
C23_Witness ==
    /\ pc = "readAux"
    /\ loopRuns = maxAttempts
    /\ currentAttempt = maxAttempts
    /\ lastLoopExit = "0"
    /\ events = <<>>
    /\ \A m \in DOMAIN installCalls : installCalls[m] = 0

\* C24: the version query on pdflatex runs at most once per request, before
\* the first attempt: no version query is in flight once the loop has started
\* a compiler pass.
C24_VersionQueryOnlyOnce ==
    proc.cmd = "pdflatex --version" => loopRuns = 0

(***************************************************************************)
(* One compile request whose window may already be gone                    *)
(***************************************************************************)
\* as Init, but event.sender may have been destroyed before the handler's
\* first send
InitObserver ==
    /\ pc = "start"
    /\ engine \in RequestEngines
    /\ observer \in ObserverStates
    /\ HandlerFresh
    /\ ipc = 0
    /\ pv = 0
    /\ sc = 0

SpecObserver == InitObserver /\ [][Next]_vars

\* C25: progress emission does not steer the request: when an attempt fails
\* while the window is destroyed, the catch clause starts the same process (or
\* returns the same outcome) as it would with the window open.
C25_SendDoesNotSteerTheRequest ==
    (pc = "run" /\ observer = "destroyed") =>
        \A code \in ExitCodes, e \in ErrorOutputs(installCalls) :
            ~Resolves(code) =>
                LET closed == CatchClause([Cur EXCEPT !.lastLoopExit = code], e)
                    open == CatchClause([Cur EXCEPT !.lastLoopExit = code,
                                                    !.observer = "open"], e)
                IN  /\ closed.pc = open.pc
                    /\ closed.proc = open.proc
                    /\ closed.outcome = open.outcome

\* C26: every 'retry' event is followed by another compiler invocation: the
\* step that sends 'retry' starts the next attempt of the loop.
C26_RetryIsFollowedByAnotherPass ==
    [][Count(events', "retry") > Count(events, "retry")
           => (pc' = "run" /\ loopRuns' = loopRuns + 1)]_vars

(***************************************************************************)
(* The engine of a request, from both entry points                         *)
(***************************************************************************)
\* the engine values a caller can pass: the three of the enum and one outside
EngineValues == allowedEngines \cup {"bogus"}

\* preload: const isAllowedEngine = (engine) => engine === 'pdflatex' || ...
isAllowedEngine(e) == e = "pdflatex" \/ e = "xelatex" \/ e = "lualatex"

\* preload api.compileLatex: if (!isAllowedEngine(engine)) engine = 'pdflatex';
\* then ipcRenderer.invoke('compile-latex', texFilePath, engine)
PreloadCompileLatex ==
    /\ pc = "preload"
    /\ Apply([Cur EXCEPT !.pc = "start",
                         !.engine = IF isAllowedEngine(engine) THEN engine ELSE "pdflatex"])
    /\ UNCHANGED <<ipc, pv, sc>>

\* the error outputs that name no package: nothing for installLatexPackage
PlainErrorOutputs ==
    {e \in ErrorOutputs(installCalls) :
        e.font \in {NoName, GenericFont} /\ e.missing = NoName}

\* a loop attempt rejected with a non-zero exit code and such an output
RunRejectedPlain ==
    /\ pc = "run"
    /\ \E code \in ExitCodes, e \in PlainErrorOutputs :
         /\ ~Resolves(code)
         /\ Apply(CatchClause([Cur EXCEPT !.lastLoopExit = code], e))
    /\ UNCHANGED <<ipc, pv, sc>>

\* a request arrives through the preload bridge or at the IPC channel itself
InitEngine ==
    /\ pc \in {"preload", "start"}
    /\ engine \in EngineValues
    /\ observer = "open"
    /\ HandlerFresh
    /\ ipc = 0
    /\ pv = 0
    /\ sc = 0

NextEngine ==
    \/ PreloadCompileLatex
    \/ CompileLatex
    \/ DetectDone
    \/ SpawnTimeout
    \/ ExecTimeout
    \/ RunResolved
    \/ RunRejectedPlain
    \/ RunSpawnError
    \/ FontsEcDone
    \/ FontsCmSuperDone
    \/ FontsRefreshDone
    \/ FontsRefresh2Done
    \/ ReadAux
    \/ BibtexDone
    \/ Rerun1Done
    \/ Rerun2Done
    \/ PdfCheck

SpecEngine == InitEngine /\ [][NextEngine]_vars

\* C27: whatever engine value arrives, a compiler pass is spawned with
\* pdflatex, xelatex or lualatex; both entry points keep a value of the enum
\* and replace any other by pdflatex; and after the handler has checked it the
\* engine never changes, so every pass of the request runs the same executable.
C27_EngineIsOneOfThreeAndFixed ==
    /\ [](pc \in SpawnPcs =>
            /\ proc.cmd \in {"pdflatex", "xelatex", "lualatex"}
            /\ proc.cmd = engine)
    /\ [][/\ pc \in {"preload", "detect"} =>
                engine' = IF engine \in {"pdflatex", "xelatex", "lualatex"}
                          THEN engine ELSE "pdflatex"
          /\ pc \notin {"preload", "detect"} => engine' = engine]_vars

\* a request for xelatex is in its third post-processing pass after two
\* attempts of the loop, still running xelatex
C27_Witness ==
    /\ pc = "rerun2"
    /\ loopRuns >= 2
    /\ engine = "xelatex"
    /\ proc.cmd = "xelatex"

\* C28: a failing bibliography resolver is not fatal. From the await of the
\* auxiliary file or of bibtex the handler either goes on with the resolver
\* (bibtex started, or its output appended and the second pass started) or
\* reaches the artifact check with the log, the passes and the outcome
\* untouched; and after a failed bibtex the outcome is success exactly when the
\* PDF is there and readable, with the attempt's log alone.
C28_BibtexFailureIsNotFatal ==
    /\ [][(pc \in {"readAux", "bibtex"} /\ pc' \notin {"bibtex", "rerun1"})
              => /\ pc' = "pdfCheck"
                 /\ combinedStdout' = combinedStdout
                 /\ loopRuns' = loopRuns
                 /\ spawned' = spawned
                 /\ outcome' = NoOutcome]_vars
    /\ [][(pc = "pdfCheck" /\ proc.cmd = "bibtex")
              => /\ pc' = "done"
                 /\ outcome'.success = (pdfExists' /\ pdfReadable')
                 /\ outcome'.log = AttemptLog(currentAttempt)]_vars

\* bibtex was started and failed: the handler is at the artifact check and
\* the log holds the attempt's output only
C28_Witness ==
    /\ pc = "pdfCheck"
    /\ proc.cmd = "bibtex"
    /\ combinedStdout = AttemptLog(currentAttempt)
    /\ outcome = NoOutcome

\* C29: isCompiling follows the latest request only: it is set exactly while
\* the request whose identifier latestCompileRequestRef holds is awaiting its
\* result. So a stale completion leaves it set while the latest request is
\* outstanding, and the latest request's result or exception, or the switch to
\* a file that is not LaTeX, clears it.
C29_CompilingFollowsLatestRequest ==
    pv.isCompiling =
        (/\ pv.latestCompileRequestRef > 0
         /\ pv.req[pv.latestCompileRequestRef].st = "awaiting")

\* the first request completed stale and was dropped while the second is
\* still awaited: the indicator is still set
C29_Witness ==
    /\ pv.latestCompileRequestRef = 2
    /\ pv.req[1].st = "dropped"
    /\ pv.req[2].st = "awaiting"
    /\ pv.isCompiling

(***************************************************************************)
(* One spawnCollect promise: its listeners and its timer                   *)
(***************************************************************************)
\* the promise before resolve or reject was called
NoResult == [kind |-> "pending", by |-> "none", stdout |-> 0, stderr |-> 0,
             code |-> "none"]

\* a listener that settles without looking at the flag
SettleUnguarded(c, r) ==
    [c EXCEPT !.settled = TRUE, !.settles = @ + 1,
              !.result = IF @.kind = "pending" THEN r ELSE @]

\* if (settled) return; settled = true; ... resolve(..) or reject(..)
Settle(c, r) ==
    IF c.settled
    THEN c
    ELSE [c EXCEPT !.settled = TRUE, !.settles = @ + 1, !.result = r]

\* clearTimeout(timer): a timer that has not fired will not fire
ClearTimeout(c) == [c EXCEPT !.timer = IF @ = "armed" THEN "cleared" ELSE @]

\* child.on('error', (err) => { ... err.stdout = stdout; err.stderr = stderr; reject(err) })
OnError(c) ==
    Settle(ClearTimeout(c),
           [kind |-> "rejected", by |-> "error", stdout |-> c.stdout,
            stderr |-> c.stderr, code |-> "none"])

\* child.on('exit', (code) => { ... if (code && code !== 0) reject(error) else resolve(..) })
OnExit(c, code) ==
    Settle(ClearTimeout(c),
           [kind |-> IF Resolves(code) THEN "resolved" ELSE "rejected", by |-> "exit",
            stdout |-> c.stdout, stderr |-> c.stderr, code |-> code])

\* setTimeout(() => { if (!settled) { try { child.kill(); } catch {} } }, timeoutMs)
OnTimer(c) ==
    [c EXCEPT !.timer = "fired", !.kills = IF c.settled THEN @ ELSE @ + 1]

\* child.stdout.on('data', (d) => { stdout += d.toString(); })
ChildStdout ==
    /\ sc.stdout < MaxChunks
    /\ sc' = [sc EXCEPT !.stdout = @ + 1]
    /\ UNCHANGED <<handlerVars, ipc, pv>>

\* child.stderr.on('data', (d) => { stderr += d.toString(); })
ChildStderr ==
    /\ sc.stderr < MaxChunks
    /\ sc' = [sc EXCEPT !.stderr = @ + 1]
    /\ UNCHANGED <<handlerVars, ipc, pv>>

\* the child emits 'error' (before or after its 'exit')
ChildError ==
    /\ ~sc.errorSeen
    /\ sc' = [OnError(sc) EXCEPT !.errorSeen = TRUE,
                                 !.first = IF @ = "none" THEN "error" ELSE @]
    /\ UNCHANGED <<handlerVars, ipc, pv>>

\* the child emits 'exit' with a code (before or after an 'error')
ChildExit ==
    /\ ~sc.exitSeen
    /\ \E code \in ExitCodes :
         sc' = [OnExit(sc, code) EXCEPT !.exitSeen = TRUE,
                                       !.first = IF @ = "none" THEN "exit" ELSE @]
    /\ UNCHANGED <<handlerVars, ipc, pv>>

\* the timeout callback runs
TimerFires ==
    /\ sc.timer = "armed"
    /\ sc' = OnTimer(sc)
    /\ UNCHANGED <<handlerVars, ipc, pv>>

\* spawnCollect has spawned the child, armed the timer and added its listeners
InitSpawn ==
    /\ IdleHandler
    /\ ipc = 0
    /\ pv = 0
    /\ sc = [stdout |-> 0, stderr |-> 0, settled |-> FALSE, timer |-> "armed",
             result |-> NoResult, settles |-> 0, kills |-> 0,
             errorSeen |-> FALSE, exitSeen |-> FALSE, first |-> "none"]

NextSpawn ==
    \/ ChildStdout
    \/ ChildStderr
    \/ ChildError
    \/ ChildExit
    \/ TimerFires

SpecSpawn == InitSpawn /\ [][NextSpawn]_vars

\* C30: in every interleaving of 'error', 'exit' and the timeout callback the
\* promise is settled at most once, by whichever of 'error' and 'exit' came
\* first, and never changes afterwards; the timeout callback kills the child
\* exactly when the promise is still unsettled; and the result or error of
\* the settlement carries all stdout and stderr received up to then.
C30_SettlesOnceWithOutputSoFar ==
    /\ [](/\ sc.settles <= 1
          /\ sc.settled = (sc.settles = 1)
          /\ (sc.first = "none") = (sc.result.kind = "pending")
          /\ sc.result.by = sc.first
          /\ sc.kills <= 1)
    /\ [][/\ sc.result.kind # "pending" => sc.result' = sc.result
          /\ (sc.result.kind = "pending" /\ sc.result'.kind # "pending")
                => /\ sc.result'.stdout = sc.stdout
                   /\ sc.result'.stderr = sc.stderr
          /\ sc.kills' > sc.kills => ~sc.settled
          /\ (sc.timer = "armed" /\ sc.timer' = "fired" /\ ~sc.settled)
                => sc.kills' = sc.kills + 1]_vars

\* the timer fired first and killed the child, then both 'exit' and 'error'
\* arrived, and more output came after the settlement than is attached to it
C30_Witness ==
    /\ sc.timer = "fired"
    /\ sc.kills = 1
    /\ sc.errorSeen
    /\ sc.exitSeen
    /\ sc.settles = 1
    /\ sc.result.stdout = 1
    /\ sc.stdout = 2
====
